---- MODULE Spec2Model ----
(***************************************************************************)
(* TouchJoystick.Joystick: the touch-tracking state machine and the        *)
(* offset / clamping / following arithmetic of hndTouchEvent.              *)
(*                                                                         *)
(* Numbers of the program are JavaScript doubles.  They are modelled as    *)
(* exact values: rationals [n, d], and, where Math.sqrt produces an        *)
(* irrational magnitude, numbers r + s*sqrt(q) with q a squarefree         *)
(* integer.  Rounding of the double arithmetic is not modelled.            *)
(***************************************************************************)
EXTENDS Integers, Sequences, FiniteSets, TLC

(***************************************************************************)
(* Bounds of the model                                                     *)
(***************************************************************************)
\* touch identifiers delivered by the host are 0..MaxTouchId
MaxTouchId == 1
\* client coordinates of a touch are taken from a grid of MaxStep+1 values per axis
MaxStep == 1
\* the constructor is given at most MaxOverrides of the options, the others are defaults
MaxOverrides == 2

(***************************************************************************)
(* Exact rational arithmetic                                               *)
(***************************************************************************)
RECURSIVE GCD(_, _)
GCD(a, b) == IF b = 0 THEN a ELSE GCD(b, a % b)

IAbs(i) == IF i < 0 THEN -i ELSE i

\* the rational n/d in lowest terms with a positive denominator (d # 0)
R(n, d) ==
    LET g == GCD(IAbs(n), IAbs(d))
        s == IF d < 0 THEN -1 ELSE 1
    IN  [n |-> (s * n) \div g, d |-> (s * d) \div g]

RInt(i) == [n |-> i, d |-> 1]
Zero == RInt(0)
One == RInt(1)
Two == RInt(2)

RAdd(a, b) == R(a.n * b.d + b.n * a.d, a.d * b.d)
RNeg(a) == [n |-> -a.n, d |-> a.d]
RSub(a, b) == RAdd(a, RNeg(b))
RMul(a, b) == R(a.n * b.n, a.d * b.d)
\* a / b for b # 0
RDiv(a, b) == R(a.n * b.d, a.d * b.n)
RLe(a, b) == a.n * b.d <= b.n * a.d
RLt(a, b) == a.n * b.d < b.n * a.d

\* Math.abs, Math.sign, Math.max, Math.min on rationals
MathAbs(a) == [n |-> IAbs(a.n), d |-> a.d]
MathSign(a) == IF a.n > 0 THEN One ELSE IF a.n < 0 THEN RInt(-1) ELSE Zero
MathMax(a, b) == IF RLe(a, b) THEN b ELSE a
MathMin(a, b) == IF RLe(a, b) THEN a ELSE b

(***************************************************************************)
(* Numbers r + s*sqrt(q): the values Math.sqrt and the division by the     *)
(* magnitude produce.  q is a squarefree integer >= 2, or s = 0 and q = 1. *)
(***************************************************************************)
Num(r, s, q) == IF s.n = 0 \/ q = 1
                THEN [r |-> RAdd(r, IF q = 1 THEN s ELSE Zero), s |-> Zero, q |-> 1]
                ELSE [r |-> r, s |-> s, q |-> q]
NumOf(a) == [r |-> a, s |-> Zero, q |-> 1]
IsRational(v) == v.s.n = 0

\* the largest t with t*t dividing k (k >= 1)
SquarePart(k) == CHOOSE t \in 1..k : /\ t <= k \div t
                                       /\ k % (t * t) = 0
                                       /\ \A u \in (t + 1)..k :
                                             u <= k \div u => k % (u * u) # 0

\* Math.sqrt(a) for a rational a >= 0
MathSqrt(a) ==
    IF a.n = 0 THEN NumOf(Zero)
    ELSE LET k == a.n * a.d
             t == SquarePart(k)
         IN  Num(Zero, R(t, a.d), k \div (t * t))

NMulRat(v, a) == Num(RMul(v.r, a), RMul(v.s, a), v.q)
NAddRat(v, a) == Num(RAdd(v.r, a), v.s, v.q)
NNeg(v) == [r |-> RNeg(v.r), s |-> RNeg(v.s), q |-> v.q]

\* a / v for a rational a and v = s*sqrt(q) # 0 (v.r = 0 or v.s = 0)
RDivNum(a, v) ==
    IF IsRational(v) THEN NumOf(RDiv(a, v.r))
    ELSE Num(Zero, RDiv(a, RMul(v.s, RInt(v.q))), v.q)

\* v <= c for a number v and a rational c
NLeRat(v, c) ==
    LET e == RSub(c, v.r)
        s2q == RMul(RMul(v.s, v.s), RInt(v.q))
        e2 == RMul(e, e)
    IN  IF v.s.n <= 0
        THEN (e.n >= 0) \/ RLe(e2, s2q)
        ELSE (e.n >= 0) /\ RLe(s2q, e2)
\* c <= v
RatLeNum(c, v) == NLeRat(NNeg(v), RNeg(c))

\* Math.min(v, c) and Math.max(v, c) for a number v and a rational c
NMin(v, c) == IF NLeRat(v, c) THEN v ELSE NumOf(c)
NMax(v, c) == IF RatLeNum(c, v) THEN v ELSE NumOf(c)

\* x^2 + y^2 for numbers x, y that are each rational or of the form s*sqrt(q)
SquaredLength(x, y) ==
    RAdd(RAdd(RMul(x.r, x.r), RMul(RMul(x.s, x.s), RInt(x.q))),
         RAdd(RMul(y.r, y.r), RMul(RMul(y.s, y.s), RInt(y.q))))

(***************************************************************************)
(* The host page: geometry the visual surface reports                      *)
(***************************************************************************)
\* bounding rectangle of the parent element (client coordinates)
ParentLeft == 2
ParentTop == 1
ParentWidth == 8
ParentHeight == 8
\* size of the outer element as first laid out, and the size it has now
RestWidth == 4
RestHeight == 4
VARIABLE outerSize            \* [width, height] of the outer element
OuterWidth == outerSize.width
OuterHeight == outerSize.height
\* size of the inner element
InnerWidth == 2
InnerHeight == 2
\* where the layout puts the outer element, relative to the parent, while its
\* style.left / style.top are unset
RestLeft == 1
RestTop == 1

\* a style property that is "", and a field never assigned
Unset == [unset |-> TRUE]
Undefined == [undefined |-> TRUE]

TouchIds == 0..MaxTouchId
ClientXs == {ParentLeft + 1 + 2 * k : k \in 0..MaxStep}
ClientYs == {ParentTop + 3 + 2 * k : k \in 0..MaxStep}
Touches == [identifier : TouchIds, clientX : ClientXs, clientY : ClientYs]

Positionings == {"fixed", "floating"}
Limitations == {"none", "x", "y"}
HandleLimits == {R(1, 2), One}

\* every configuration the constructor can be given
AllOptions ==
    [following : BOOLEAN,
     handle : [limit : HandleLimits, round : BOOLEAN],
     limitInput : Limitations,
     positioning : Positionings,
     invertY : BOOLEAN,
     limitToParentElement : BOOLEAN]

defaultOptions ==
    [following |-> FALSE,
     handle |-> [limit |-> One, round |-> TRUE],
     limitInput |-> "none",
     positioning |-> "fixed",
     invertY |-> FALSE,
     limitToParentElement |-> TRUE]

OptionKeys ==
    {"following", "handle", "limitInput", "positioning", "invertY", "limitToParentElement"}

\* #options of the constructor: { ...this.defaultOptions, ..._options }
MergedOptions(given, keys) ==
    [k \in OptionKeys |-> IF k \in keys THEN given[k] ELSE defaultOptions[k]]

(***************************************************************************)
(* State of one Joystick and of its two elements                           *)
(***************************************************************************)
VARIABLES
    options,                  \* #options
    currentlyActiveTouchId,   \* #currentlyActiveTouchId
    touchStart,               \* #touchStart: Undefined or [x, y]
    currentValue,             \* #currentValue: [x, y]
    outerActive,              \* outer element carries class "active" (else "inactive")
    outerStyle,               \* outer element style: Unset or [left, top]
    innerStyle,               \* inner element style: Unset or [left, top]
    lastEvent,                \* the event of the last call of hndTouchEvent
    emitted,                  \* the CustomEvents that call dispatched: <<[type, detail]>>
    thrown,                   \* that call ended in a TypeError
    lastLifecycle,            \* history: the last of pressed / released dispatched so far
    lastChange,               \* history: detail of the last change since the last pressed
    setterCalls,              \* history: how many setters have been called
    retained                  \* what a listener of the joystick has kept of _event.detail

joystick == <<options, currentlyActiveTouchId, touchStart, currentValue,
              outerActive, outerStyle, innerStyle>>
vars == <<options, currentlyActiveTouchId, touchStart, currentValue,
          outerActive, outerStyle, innerStyle, lastEvent, emitted, thrown,
          lastLifecycle, lastChange, setterCalls, outerSize, retained>>

\* what no touch event changes
host == <<setterCalls, outerSize>>

\* _event.changedTouches: a list of touches, or undefined
TouchList(list) == [list |-> list]
NoTouches == [undefined |-> TRUE]
NoEvent == [type |-> "none", changedTouches |-> NoTouches]
\* the detail of a CustomEvent created without one
NoDetail == [null |-> TRUE]

\* getBoundingClientRect of the parent and of the outer and inner element
bcrParent ==
    [left |-> RInt(ParentLeft), top |-> RInt(ParentTop),
     width |-> RInt(ParentWidth), height |-> RInt(ParentHeight)]

OuterRect(style) ==
    [left |-> RAdd(bcrParent.left, IF style = Unset THEN RInt(RestLeft) ELSE style.left),
     top |-> RAdd(bcrParent.top, IF style = Unset THEN RInt(RestTop) ELSE style.top),
     width |-> RInt(OuterWidth), height |-> RInt(OuterHeight)]

\* the inner element lies inside the outer one, centred while its style is unset
InnerRect(oStyle, iStyle) ==
    LET o == OuterRect(oStyle)
    IN  [left |-> IF iStyle = Unset
                  THEN NumOf(RAdd(o.left, RDiv(RSub(o.width, RInt(InnerWidth)), Two)))
                  ELSE NAddRat(iStyle.left, o.left),
         top |-> IF iStyle = Unset
                 THEN NumOf(RAdd(o.top, RDiv(RSub(o.height, RInt(InnerHeight)), Two)))
                 ELSE NAddRat(iStyle.top, o.top),
         width |-> RInt(InnerWidth), height |-> RInt(InnerHeight)]

\* the element a touch at client point (cx, cy) lands on: _event.target of a touchstart
HitTarget(cx, cy, oStyle, iStyle) ==
    LET o == OuterRect(oStyle)
        i == InnerRect(oStyle, iStyle)
        inO == /\ RLe(o.left, cx) /\ RLt(cx, RAdd(o.left, o.width))
               /\ RLe(o.top, cy) /\ RLt(cy, RAdd(o.top, o.height))
        inI == /\ NLeRat(i.left, cx) /\ ~NLeRat(NAddRat(i.left, i.width), cx)
               /\ NLeRat(i.top, cy) /\ ~NLeRat(NAddRat(i.top, i.height), cy)
    IN  IF inO /\ inI THEN "inner" ELSE IF inO THEN "outer" ELSE "parent"

(***************************************************************************)
(* Joystick: the arithmetic of a processed touchmove                       *)
(***************************************************************************)
Vec(x, y) == [x |-> x, y |-> y]
ZeroVec == Vec(Zero, Zero)

\* relativeTouchPoint: the first changed touch, relative to the parent
RelativeTouchPoint(touch) ==
    Vec(RSub(RInt(touch.clientX), bcrParent.left),
        RSub(RInt(touch.clientY), bcrParent.top))

\* offsetX / offsetY before scaling: touch point - #touchStart, one axis zeroed by limitInput
RawOffset(rel, start, limitInput) ==
    Vec(IF limitInput = "x" THEN Zero ELSE RSub(rel.x, start.x),
        IF limitInput # "x" /\ limitInput = "y" THEN Zero ELSE RSub(rel.y, start.y))

ScaledOffsetAtRest(raw, bcrO) ==
    Vec(RDiv(raw.x, R(RestWidth, 2)), RDiv(raw.y, R(RestHeight, 2)))

\* scale offset so 1 = outline of outer element
ScaledOffset(raw, bcrO) ==
    Vec(RDiv(raw.x, RDiv(bcrO.width, Two)), RDiv(raw.y, RDiv(bcrO.height, Two)))

\* the condition of the follower code
Follows(offset, opts) ==
    /\ opts.following
    /\ \/ RLt(opts.handle.limit, MathAbs(offset.x))
       \/ RLt(opts.handle.limit, MathAbs(offset.y))

FollowPositionToTouch(offset, start, bcrO, opts) ==
    LET halfW == RDiv(bcrO.width, Two)
        halfH == RDiv(bcrO.height, Two)
        newPosX == RAdd(RMul(offset.x, halfW), start.x)
        newPosY == RAdd(RMul(offset.y, halfH), start.y)
    IN  IF opts.limitToParentElement
        THEN Vec(MathMax(halfW, MathMin(RSub(bcrParent.width, halfW), newPosX)),
                 MathMax(halfH, MathMin(RSub(bcrParent.height, halfH), newPosY)))
        ELSE Vec(newPosX, newPosY)

FollowPositionUnlimited(offset, start, bcrO, opts) ==
    Vec(RAdd(RMul(RMul(MathMax(Zero, RSub(MathAbs(offset.x), opts.handle.limit)),
                       MathSign(offset.x)), RDiv(bcrO.width, Two)), start.x),
        RAdd(RMul(RMul(MathMax(Zero, RSub(MathAbs(offset.y), opts.handle.limit)),
                       MathSign(offset.y)), RDiv(bcrO.height, Two)), start.y))

FollowPositionWithoutSign(offset, start, bcrO, opts) ==
    LET limit == opts.handle.limit
        halfW == RDiv(bcrO.width, Two)
        halfH == RDiv(bcrO.height, Two)
        newPosX == RAdd(RMul(MathMax(Zero, RSub(MathAbs(offset.x), limit)), halfW), start.x)
        newPosY == RAdd(RMul(MathMax(Zero, RSub(MathAbs(offset.y), limit)), halfH), start.y)
    IN  IF opts.limitToParentElement
        THEN Vec(MathMax(halfW, MathMin(RSub(bcrParent.width, halfW), newPosX)),
                 MathMax(halfH, MathMin(RSub(bcrParent.height, halfH), newPosY)))
        ELSE Vec(newPosX, newPosY)

\* newPosX / newPosY of the follower code, limited to the parent element
FollowPosition(offset, start, bcrO, opts) ==
    LET limit == opts.handle.limit
        halfW == RDiv(bcrO.width, Two)
        halfH == RDiv(bcrO.height, Two)
        newPosX == RAdd(RMul(RMul(MathMax(Zero, RSub(MathAbs(offset.x), limit)),
                                  MathSign(offset.x)), halfW), start.x)
        newPosY == RAdd(RMul(RMul(MathMax(Zero, RSub(MathAbs(offset.y), limit)),
                                  MathSign(offset.y)), halfH), start.y)
    IN  IF opts.limitToParentElement
        THEN Vec(MathMax(halfW, MathMin(RSub(bcrParent.width, halfW), newPosX)),
                 MathMax(halfH, MathMin(RSub(bcrParent.height, halfH), newPosY)))
        ELSE Vec(newPosX, newPosY)

positionJoystickAtCorner(x, y, bcr) ==
    [outerStyle |-> [left |-> RSub(x, RDiv(bcr.width, Two)),
                     top |-> RSub(y, RDiv(bcr.height, Two))],
     innerStyle |-> Unset,
     touchStart |-> Vec(RSub(x, RDiv(bcr.width, Two)), RSub(y, RDiv(bcr.height, Two)))]

\* positionJoystick(x, y): the styles and #touchStart it leaves
positionJoystick(x, y, bcr) ==
    [outerStyle |-> [left |-> RSub(x, RDiv(bcr.width, Two)),
                     top |-> RSub(y, RDiv(bcr.height, Two))],
     innerStyle |-> Unset,
     touchStart |-> Vec(x, y)]

normalizeToUnit(v, scale) ==
    LET magnitude == MathSqrt(RAdd(RMul(v.x, v.x), RMul(v.y, v.y)))
    IN  IF NLeRat(magnitude, scale)
        THEN Vec(NumOf(v.x), NumOf(v.y))
        ELSE Vec(RDivNum(v.x, magnitude), RDivNum(v.y, magnitude))

normalizeToMaxScale(v, scale) ==
    LET magnitude == MathSqrt(RAdd(RMul(v.x, v.x), RMul(v.y, v.y)))
    IN  IF NLeRat(magnitude, scale)
        THEN Vec(NumOf(v.x), NumOf(v.y))
        ELSE Vec(NMulRat(RDivNum(v.x, magnitude), scale),
                 NMulRat(RDivNum(v.y, magnitude), scale))

VisualOffsetUnlimited(offset, handle) ==
    IF handle.round
    THEN normalizeToMaxScale(offset, handle.limit)
    ELSE Vec(NumOf(offset.x), NumOf(offset.y))

\* visualOffsetX / visualOffsetY after the round and the per-axis limitation
VisualOffset(offset, handle) ==
    LET v == IF handle.round
             THEN normalizeToMaxScale(offset, handle.limit)
             ELSE Vec(NumOf(offset.x), NumOf(offset.y))
    IN  Vec(NMax(NMin(v.x, handle.limit), RNeg(handle.limit)),
            NMax(NMin(v.y, handle.limit), RNeg(handle.limit)))

\* the pixel offsets written to the inner element's style.left / style.top
HandleStyle(visual, bcrO, bcrI) ==
    [left |-> NAddRat(NMulRat(visual.x, RDiv(bcrO.width, Two)),
                      RDiv(RSub(bcrO.width, bcrI.width), Two)),
     top |-> NAddRat(NMulRat(visual.y, RDiv(bcrO.height, Two)),
                     RDiv(RSub(bcrO.height, bcrI.height), Two))]

ReportedValueClamped(offset, opts) ==
    LET l == opts.handle.limit
    IN  Vec(MathMax(MathMin(offset.x, l), RNeg(l)),
            IF opts.invertY THEN RMul(offset.y, RInt(-1)) ELSE offset.y)

ReportedValueInvertsBoth(offset, opts) ==
    IF opts.invertY
    THEN Vec(RMul(offset.x, RInt(-1)), RMul(offset.y, RInt(-1)))
    ELSE offset

\* the vector stored in #currentValue and sent as the detail of CHANGE
ReportedValue(offset, opts) ==
    Vec(offset.x, IF opts.invertY THEN RMul(offset.y, RInt(-1)) ELSE offset.y)

(***************************************************************************)
(* Joystick.hndTouchEvent                                                  *)
(***************************************************************************)
CustomEvent(type, detail) == [type |-> type, detail |-> detail]

\* the handler returns without having changed or dispatched anything
Returns ==
    /\ UNCHANGED joystick
    /\ emitted' = <<>>
    /\ thrown' = FALSE
    /\ UNCHANGED <<lastLifecycle, lastChange>>

\* reading .x of an undefined #touchStart: a TypeError leaves the handler
Throws ==
    /\ UNCHANGED joystick
    /\ emitted' = <<>>
    /\ thrown' = TRUE
    /\ UNCHANGED <<lastLifecycle, lastChange>>

\* the touchstart branch, taken while #currentlyActiveTouchId is falsy
Pressed(touch, rel) ==
    LET bcr == OuterRect(outerStyle)
        placed == positionJoystick(rel.x, rel.y, bcr)
    IN  IF options.positioning = "fixed"
           /\ HitTarget(RInt(touch.clientX), RInt(touch.clientY), outerStyle, innerStyle) # "outer"
        THEN Returns
        ELSE /\ IF options.positioning = "fixed"
                THEN /\ touchStart' =
                            Vec(RSub(RAdd(bcr.left, RDiv(bcr.width, Two)), bcrParent.left),
                                RSub(RAdd(bcr.top, RDiv(bcr.height, Two)), bcrParent.top))
                     /\ UNCHANGED <<outerStyle, innerStyle>>
                ELSE /\ touchStart' = placed.touchStart
                     /\ outerStyle' = placed.outerStyle
                     /\ innerStyle' = placed.innerStyle
             /\ outerActive' = TRUE
             /\ currentlyActiveTouchId' = touch.identifier
             /\ emitted' = <<CustomEvent("pressed", NoDetail)>>
             /\ thrown' = FALSE
             /\ lastLifecycle' = "pressed"
             /\ lastChange' = NoDetail
             /\ UNCHANGED <<options, currentValue>>

\* the touchend branch of the tracked touch
Released ==
    /\ currentlyActiveTouchId' = 0
    /\ innerStyle' = Unset
    /\ outerStyle' = IF options.positioning = "fixed" THEN Unset ELSE outerStyle
    /\ outerActive' = FALSE
    /\ emitted' = <<CustomEvent("released", currentValue)>>
    /\ currentValue' = ZeroVec
    /\ thrown' = FALSE
    /\ lastLifecycle' = "released"
    /\ UNCHANGED <<options, touchStart, lastChange>>

ChangedFromMovedOrigin(rel) ==
    IF touchStart = Undefined
    THEN Throws
    ELSE LET bcrO == OuterRect(outerStyle)
             bcrI == InnerRect(outerStyle, innerStyle)
             offset == ScaledOffset(RawOffset(rel, touchStart, options.limitInput), bcrO)
             newPos == FollowPosition(offset, touchStart, bcrO, options)
             placed == positionJoystick(newPos.x, newPos.y, bcrO)
             moved == IF Follows(offset, options)
                      THEN ScaledOffset(RawOffset(rel, placed.touchStart, options.limitInput), bcrO)
                      ELSE offset
             value == ReportedValue(moved, options)
         IN  /\ IF Follows(offset, options)
                THEN /\ touchStart' = placed.touchStart
                     /\ outerStyle' = placed.outerStyle
                ELSE UNCHANGED <<touchStart, outerStyle>>
             /\ innerStyle' = HandleStyle(VisualOffset(moved, options.handle), bcrO, bcrI)
             /\ currentValue' = value
             /\ emitted' = <<CustomEvent("change", value)>>
             /\ thrown' = FALSE
             /\ lastChange' = value
             /\ UNCHANGED <<options, currentlyActiveTouchId, outerActive, lastLifecycle>>

\* the touchmove branch of the tracked touch
Changed(rel) ==
    IF touchStart = Undefined
    THEN Throws
    ELSE LET bcrO == OuterRect(outerStyle)
             bcrI == InnerRect(outerStyle, innerStyle)
             offset == ScaledOffset(RawOffset(rel, touchStart, options.limitInput), bcrO)
             newPos == FollowPosition(offset, touchStart, bcrO, options)
             placed == positionJoystick(newPos.x, newPos.y, bcrO)
             value == ReportedValue(offset, options)
         IN  /\ IF Follows(offset, options)
                THEN /\ touchStart' = placed.touchStart
                     /\ outerStyle' = placed.outerStyle
                ELSE UNCHANGED <<touchStart, outerStyle>>
             /\ innerStyle' = HandleStyle(VisualOffset(offset, options.handle), bcrO, bcrI)
             /\ currentValue' = value
             /\ emitted' = <<CustomEvent("change", value)>>
             /\ thrown' = FALSE
             /\ lastChange' = value
             /\ UNCHANGED <<options, currentlyActiveTouchId, outerActive, lastLifecycle>>

\* a CustomEvent of the given type was dispatched by the last call
Dispatched(type) == emitted # <<>> /\ emitted[1].type = type

\* no listener of the joystick keeps the detail of an event
NotListening == [listening |-> FALSE]
\* { detail: this.#currentValue }: the detail of change and released is the
\* #currentValue object itself, the one object the field holds from construction on
CurrentValueRef == [object |-> "#currentValue"]
\* dispatchEvent calls the listeners before it returns: a listener that keeps
\* _event.detail per event type holds the reference and has read its value
Listen(kept, events) ==
    IF kept = NotListening \/ events = <<>> \/ events[1].detail = NoDetail
    THEN kept
    ELSE [kept EXCEPT ![events[1].type] =
              [detail |-> CurrentValueRef, seen |-> events[1].detail]]

\* the identifier comparison of the touchend and touchmove branches
IsTrackedTouchAlways(touch) == TRUE
IsTrackedTouch(touch) == currentlyActiveTouchId = touch.identifier

hndTouchEventUnguarded(type, changedTouches) ==
    /\ lastEvent' = [type |-> type, changedTouches |-> changedTouches]
    /\ UNCHANGED host
    /\ IF changedTouches = NoTouches
       THEN Throws
       ELSE LET touch == changedTouches.list[1]
                rel == RelativeTouchPoint(touch)
            IN  IF type = "touchstart" /\ currentlyActiveTouchId = 0
                THEN Pressed(touch, rel)
                ELSE IF type = "touchend" /\ IsTrackedTouch(touch)
                THEN Released
                ELSE IF type = "touchmove" /\ IsTrackedTouch(touch)
                THEN Changed(rel)
                ELSE Returns
    /\ retained' = Listen(retained, emitted')

hndTouchEvent(type, changedTouches) ==
    /\ lastEvent' = [type |-> type, changedTouches |-> changedTouches]
    /\ UNCHANGED host
    /\ IF changedTouches = NoTouches
       THEN Returns
       ELSE LET touch == changedTouches.list[1]
                rel == RelativeTouchPoint(touch)
            IN  IF type = "touchstart" /\ currentlyActiveTouchId = 0
                THEN Pressed(touch, rel)
                ELSE IF type = "touchend" /\ IsTrackedTouch(touch)
                THEN Released
                ELSE IF type = "touchmove" /\ IsTrackedTouch(touch)
                THEN Changed(rel)
                ELSE Returns
    /\ retained' = Listen(retained, emitted')

\* the fields of the Joystick as one value
This ==
    [options |-> options,
     currentlyActiveTouchId |-> currentlyActiveTouchId,
     touchStart |-> touchStart,
     currentValue |-> currentValue,
     outerActive |-> outerActive,
     outerStyle |-> outerStyle,
     innerStyle |-> innerStyle]

\* hndTouchEvent as a function of the joystick it is called on: the joystick
\* it leaves, the CustomEvents it dispatched and whether it threw
hndTouchEventOf(this, type, changedTouches) ==
    LET returns == [this |-> this, emitted |-> <<>>, thrown |-> FALSE]
    IN  IF changedTouches = NoTouches
        THEN returns
        ELSE
        LET touch == changedTouches.list[1]
            rel == RelativeTouchPoint(touch)
            bcrO == OuterRect(this.outerStyle)
            bcrI == InnerRect(this.outerStyle, this.innerStyle)
            tracked == this.currentlyActiveTouchId = touch.identifier
        IN  IF type = "touchstart" /\ this.currentlyActiveTouchId = 0
            THEN IF this.options.positioning = "fixed"
                 THEN IF HitTarget(RInt(touch.clientX), RInt(touch.clientY),
                                   this.outerStyle, this.innerStyle) # "outer"
                      THEN returns
                      ELSE [this |-> [this EXCEPT
                                !.touchStart =
                                    Vec(RSub(RAdd(bcrO.left, RDiv(bcrO.width, Two)), bcrParent.left),
                                        RSub(RAdd(bcrO.top, RDiv(bcrO.height, Two)), bcrParent.top)),
                                !.outerActive = TRUE,
                                !.currentlyActiveTouchId = touch.identifier],
                            emitted |-> <<CustomEvent("pressed", NoDetail)>>,
                            thrown |-> FALSE]
                 ELSE LET placed == positionJoystick(rel.x, rel.y, bcrO)
                      IN  [this |-> [this EXCEPT
                                !.touchStart = placed.touchStart,
                                !.outerStyle = placed.outerStyle,
                                !.innerStyle = placed.innerStyle,
                                !.outerActive = TRUE,
                                !.currentlyActiveTouchId = touch.identifier],
                           emitted |-> <<CustomEvent("pressed", NoDetail)>>,
                           thrown |-> FALSE]
            ELSE IF type = "touchend" /\ tracked
            THEN [this |-> [this EXCEPT
                      !.currentlyActiveTouchId = 0,
                      !.innerStyle = Unset,
                      !.outerStyle = IF this.options.positioning = "fixed" THEN Unset ELSE @,
                      !.outerActive = FALSE,
                      !.currentValue = ZeroVec],
                  emitted |-> <<CustomEvent("released", this.currentValue)>>,
                  thrown |-> FALSE]
            ELSE IF type = "touchmove" /\ tracked
            THEN IF this.touchStart = Undefined
                 THEN [this |-> this, emitted |-> <<>>, thrown |-> TRUE]
                 ELSE
                 LET offset == ScaledOffset(RawOffset(rel, this.touchStart,
                                                      this.options.limitInput), bcrO)
                     newPos == FollowPosition(offset, this.touchStart, bcrO, this.options)
                     placed == positionJoystick(newPos.x, newPos.y, bcrO)
                     value == ReportedValue(offset, this.options)
                     follows == Follows(offset, this.options)
                 IN  [this |-> [this EXCEPT
                           !.touchStart = IF follows THEN placed.touchStart ELSE @,
                           !.outerStyle = IF follows THEN placed.outerStyle ELSE @,
                           !.innerStyle = HandleStyle(VisualOffset(offset, this.options.handle),
                                                      bcrO, bcrI),
                           !.currentValue = value],
                      emitted |-> <<CustomEvent("change", value)>>,
                      thrown |-> FALSE]
            ELSE returns

(***************************************************************************)
(* The host delivers touch events to the listeners of the constructor      *)
(***************************************************************************)
Init ==
    /\ \E given \in AllOptions, keys \in SUBSET OptionKeys :
          /\ Cardinality(keys) <= MaxOverrides
          /\ options = MergedOptions(given, keys)
    /\ currentlyActiveTouchId = 0
    /\ touchStart = Undefined
    /\ currentValue = ZeroVec
    /\ outerActive = FALSE
    /\ outerStyle = Unset
    /\ innerStyle = Unset
    /\ lastEvent = NoEvent
    /\ emitted = <<>>
    /\ thrown = FALSE
    /\ lastLifecycle = "none"
    /\ lastChange = NoDetail
    /\ setterCalls = 0
    /\ outerSize = [width |-> RestWidth, height |-> RestHeight]
    /\ retained = NotListening

TouchStart == \E t \in Touches : hndTouchEvent("touchstart", TouchList(<<t>>))
TouchMove == \E t \in Touches : hndTouchEvent("touchmove", TouchList(<<t>>))
TouchEnd == \E t \in Touches : hndTouchEvent("touchend", TouchList(<<t>>))

Next == TouchStart \/ TouchMove \/ TouchEnd

Spec == Init /\ [][Next]_vars

\* a joystick freshly constructed with the given #options
Constructed(opts) ==
    /\ options = opts
    /\ currentlyActiveTouchId = 0
    /\ touchStart = Undefined
    /\ currentValue = ZeroVec
    /\ outerActive = FALSE
    /\ outerStyle = Unset
    /\ innerStyle = Unset
    /\ lastEvent = NoEvent
    /\ emitted = <<>>
    /\ thrown = FALSE
    /\ lastLifecycle = "none"
    /\ lastChange = NoDetail
    /\ setterCalls = 0
    /\ outerSize = [width |-> RestWidth, height |-> RestHeight]
    /\ retained = NotListening

\* new Joystick(parent, { positioning: "floating", following: true, handle: ...,
\* limitToParentElement: ... })
InitFollowing ==
    \E opts \in AllOptions :
        /\ opts.following
        /\ opts.positioning = "floating"
        /\ opts.limitInput = defaultOptions.limitInput
        /\ opts.invertY = defaultOptions.invertY
        /\ Constructed(opts)

\* the touches of these sessions: at the left edge of the parent or 3 to the
\* right of it, far enough apart to exceed every handle.limit
FollowingTouches ==
    [identifier : TouchIds, clientX : {ParentLeft, ParentLeft + 3}, clientY : ClientYs]

\* one finger on the parent element
OneTouch == {t \in FollowingTouches : t.identifier = MaxTouchId}

OneTouchStart == \E t \in OneTouch : hndTouchEvent("touchstart", TouchList(<<t>>))
OneTouchMove == \E t \in OneTouch : hndTouchEvent("touchmove", TouchList(<<t>>))
OneTouchEnd == \E t \in OneTouch : hndTouchEvent("touchend", TouchList(<<t>>))

NextFollowing == OneTouchStart \/ OneTouchMove \/ OneTouchEnd

SpecFollowing == InitFollowing /\ [][NextFollowing]_vars

(***************************************************************************)
(* Properties                                                              *)
(***************************************************************************)
\* the first changed touch of the last event
LastTouch == lastEvent.changedTouches.list[1]
HasTouch == lastEvent.changedTouches # NoTouches

\* C1: Current Value is (0,0) in every state in which no session is active
\* (the outer element is marked inactive and no touch is tracked), and right
\* after every released notification.
C1_ZeroWhenInactive ==
    /\ (~outerActive /\ currentlyActiveTouchId = 0) => currentValue = ZeroVec
    /\ Dispatched("released") => currentValue = ZeroVec

\* C2: a touchstart delivered while a session is in progress (pressed was
\* dispatched and not yet released) leaves #touchStart and
\* #currentlyActiveTouchId unchanged and dispatches no pressed.
C2_TouchStartWhileActiveIgnored ==
    [][(lastEvent'.type = "touchstart" /\ outerActive)
          => /\ touchStart' = touchStart
             /\ currentlyActiveTouchId' = currentlyActiveTouchId
             /\ (emitted' = <<>> \/ emitted'[1].type # "pressed")]_vars

\* C3: with limitInput = "x" every change carries y = 0, and with
\* limitInput = "y" every change carries x = 0.
C3_LimitInputKeepsNamedAxis ==
    Dispatched("change") =>
        /\ options.limitInput = "x" => emitted[1].detail.y = Zero
        /\ options.limitInput = "y" => emitted[1].detail.x = Zero

\* C4: during a session a touchmove or touchend of a touch other than the
\* tracked one changes nothing of the joystick and of its elements and
\* dispatches nothing.
C4_OtherTouchIgnored ==
    [][(/\ lastEvent'.type \in {"touchmove", "touchend"}
        /\ lastEvent'.changedTouches # NoTouches
        /\ outerActive
        /\ lastEvent'.changedTouches.list[1].identifier # currentlyActiveTouchId)
          => /\ UNCHANGED <<currentlyActiveTouchId, touchStart, currentValue,
                            outerActive, outerStyle, innerStyle>>
             /\ emitted' = <<>>
             /\ thrown' = FALSE]_vars

\* C4 witness: a session that has reported a value has just ignored the
\* touchmove or touchend of another touch.
C4_Witness ==
    /\ lastEvent.type \in {"touchmove", "touchend"}
    /\ HasTouch
    /\ outerActive
    /\ LastTouch.identifier # currentlyActiveTouchId
    /\ currentValue # ZeroVec
    /\ innerStyle # Unset
    /\ emitted = <<>>

\* C5: a touchmove or touchend that arrives while no session is active raises
\* no error, dispatches nothing and changes nothing.
C5_NoSessionMoveEndIsNoOp ==
    [][(/\ lastEvent'.type \in {"touchmove", "touchend"}
        /\ ~outerActive
        /\ currentlyActiveTouchId = 0)
          => /\ thrown' = FALSE
             /\ emitted' = <<>>
             /\ UNCHANGED <<currentValue, touchStart, outerActive, outerStyle,
                            innerStyle>>]_vars

\* C6: pressed and released alternate, starting with pressed, and every
\* change lies between a pressed and its released.
C6_SessionsAlternate ==
    [][/\ (emitted' # <<>> /\ emitted'[1].type = "pressed") => lastLifecycle # "pressed"
       /\ (emitted' # <<>> /\ emitted'[1].type = "released") => lastLifecycle = "pressed"
       /\ (emitted' # <<>> /\ emitted'[1].type = "change") => lastLifecycle = "pressed"]_vars

\* C7: with positioning = "fixed" no touchmove moves #touchStart or the
\* position commanded to the outer element, whatever following is.
C7_FixedOriginNeverMoves ==
    [][(options.positioning = "fixed" /\ lastEvent'.type = "touchmove")
          => /\ touchStart' = touchStart
             /\ outerStyle' = outerStyle]_vars

\* C8: the detail of every change, stored as #currentValue, is per axis
\* (touch point - #touchStart) / (half the outer size), after the limitInput
\* zeroing and the invertY negation, whatever handle.limit and handle.round are.
C8_ChangeIsUnclampedOffset ==
    [][(emitted' # <<>> /\ emitted'[1].type = "change")
          => LET p == RelativeTouchPoint(lastEvent'.changedTouches.list[1])
                 d == emitted'[1].detail
                 dy == IF options.invertY THEN RNeg(d.y) ELSE d.y
             IN  /\ RMul(d.x, R(OuterWidth, 2)) =
                        (IF options.limitInput = "x" THEN Zero ELSE RSub(p.x, touchStart.x))
                 /\ RMul(dy, R(OuterHeight, 2)) =
                        (IF options.limitInput = "y" THEN Zero ELSE RSub(p.y, touchStart.y))
                 /\ currentValue' = d]_vars

\* C8 witness: with handle.round and handle.limit = 1 a change reports (-1, 1),
\* a vector longer than the limit.
C8_Witness ==
    /\ Dispatched("change")
    /\ options.handle = [limit |-> One, round |-> TRUE]
    /\ emitted[1].detail = Vec(RInt(-1), One)
    /\ currentValue = Vec(RInt(-1), One)

\* C9: released carries the detail of the last change of its session, (0,0)
\* if there was none, and #currentValue is (0,0) once it has been dispatched.
C9_ReleasedCarriesLastChange ==
    Dispatched("released") =>
        /\ emitted[1].detail = (IF lastChange = NoDetail THEN ZeroVec ELSE lastChange)
        /\ currentValue = ZeroVec

\* the handle vector the inner element's style shows, in units of half the outer size
HandleVector ==
    Vec(NMulRat(NAddRat(innerStyle.left, RNeg(R(OuterWidth - InnerWidth, 2))), R(2, OuterWidth)),
        NMulRat(NAddRat(innerStyle.top, RNeg(R(OuterHeight - InnerHeight, 2))), R(2, OuterHeight)))

\* the scaled offset of the last change: #currentValue with invertY undone
LastOffset ==
    Vec(currentValue.x, IF options.invertY THEN RNeg(currentValue.y) ELSE currentValue.y)

NumSign(v) == IF ~NLeRat(v, Zero) THEN 1 ELSE IF ~RatLeNum(Zero, v) THEN -1 ELSE 0

\* C10: with handle.round and handle.limit = L the handle vector placed by a
\* touchmove has length at most L, is the scaled offset v when |v| <= L, and
\* else has the direction of v and length L.
C10_RoundHandleWithinLimit ==
    (Dispatched("change") /\ options.handle.round) =>
        LET L2 == RMul(options.handle.limit, options.handle.limit)
            v == LastOffset
            vv == RAdd(RMul(v.x, v.x), RMul(v.y, v.y))
            h == HandleVector
        IN  /\ RLe(SquaredLength(h.x, h.y), L2)
            /\ RLe(vv, L2) => h = Vec(NumOf(v.x), NumOf(v.y))
            /\ ~RLe(vv, L2) =>
                  /\ SquaredLength(h.x, h.y) = L2
                  /\ NMulRat(h.x, v.y) = NMulRat(h.y, v.x)
                  /\ NumSign(h.x) = MathSign(v.x).n
                  /\ NumSign(h.y) = MathSign(v.y).n

\* C10 witness: a touchmove has placed a round handle for an offset longer
\* than the limit whose length is irrational.
C10_Witness ==
    /\ Dispatched("change")
    /\ options.handle.round
    /\ ~RLe(RAdd(RMul(LastOffset.x, LastOffset.x), RMul(LastOffset.y, LastOffset.y)),
            RMul(options.handle.limit, options.handle.limit))
    /\ ~IsRational(HandleVector.x)

\* one axis of the handle vector is the clamp of one axis of the offset to [-L, L]
IsClampOf(h, v, L) ==
    /\ RatLeNum(RNeg(L), h)
    /\ NLeRat(h, L)
    /\ RLe(MathAbs(v), L) => h = NumOf(v)
    /\ RLt(L, v) => h = NumOf(L)
    /\ RLt(v, RNeg(L)) => h = NumOf(RNeg(L))

\* C11: with handle.round = false and handle.limit = L each axis of the
\* handle vector placed by a touchmove is the clamp of the same axis of the
\* scaled offset to [-L, L], whatever the other axis is.
C11_SquareHandleClampsPerAxis ==
    (Dispatched("change") /\ ~options.handle.round) =>
        /\ IsClampOf(HandleVector.x, LastOffset.x, options.handle.limit)
        /\ IsClampOf(HandleVector.y, LastOffset.y, options.handle.limit)

\* C11 witness: a touchmove has placed a square handle for an offset that
\* exceeds the limit on one axis and is within it, and not zero, on the other.
C11_Witness ==
    /\ Dispatched("change")
    /\ ~options.handle.round
    /\ \/ /\ RLt(options.handle.limit, MathAbs(LastOffset.x))
          /\ RLe(MathAbs(LastOffset.y), options.handle.limit)
          /\ LastOffset.y # Zero
       \/ /\ RLt(options.handle.limit, MathAbs(LastOffset.y))
          /\ RLe(MathAbs(LastOffset.x), options.handle.limit)
          /\ LastOffset.x # Zero

\* the same joystick configured with the other invertY: Y of #currentValue negated
Mirror(this) ==
    [this EXCEPT !.options.invertY = ~@, !.currentValue.y = RNeg(@)]

\* the same CustomEvents with Y of every detail negated
MirrorEvents(events) ==
    [i \in DOMAIN events |->
        IF events[i].detail = NoDetail
        THEN events[i]
        ELSE CustomEvent(events[i].type, Vec(events[i].detail.x, RNeg(events[i].detail.y)))]

\* C12: the same touch sequence run with the other invertY places the handle
\* and the outer element identically at every step and dispatches the same
\* events, X of every change / released detail identical and Y negated. Step
\* by step: the event that takes the joystick from one state to the next
\* takes the joystick with the other invertY from the mirrored state to the
\* mirrored next state.
C12_InvertYOnlyNegatesY ==
    [][LET e == lastEvent'
       IN  /\ hndTouchEventOf(This, e.type, e.changedTouches) =
                 [this |-> This', emitted |-> emitted', thrown |-> thrown']
           /\ hndTouchEventOf(Mirror(This), e.type, e.changedTouches) =
                 [this |-> Mirror(This'), emitted |-> MirrorEvents(emitted'),
                  thrown |-> thrown']]_vars

\* C12 witness: a change with a Y that is not zero, with invertY set, has
\* been followed by the released that carries it.
C12_Witness ==
    /\ options.invertY
    /\ Dispatched("released")
    /\ emitted[1].detail.y # Zero
    /\ emitted[1].detail.x # Zero

\* the scaled offset of the change just dispatched exceeds handle.limit on some axis
ExceedsLimit(detail, limit) ==
    RLt(limit, MathAbs(detail.x)) \/ RLt(limit, MathAbs(detail.y))

\* C13: with following, floating positioning and limitToParentElement, and a
\* parent at least as large as the outer element, every touchmove that runs
\* the follower code leaves #touchStart, the centre of the outer element, at
\* least half the outer size away from every edge of the parent: the outer
\* element lies inside the parent.
C13_FollowingStaysInsideParent ==
    [][(/\ Dispatched("change")'
        /\ options.following
        /\ options.positioning = "floating"
        /\ options.limitToParentElement
        /\ ExceedsLimit(emitted'[1].detail, options.handle.limit)
        /\ OuterWidth <= ParentWidth
        /\ OuterHeight <= ParentHeight) =>
            /\ RLe(R(OuterWidth, 2), touchStart'.x)
            /\ RLe(touchStart'.x, RSub(RInt(ParentWidth), R(OuterWidth, 2)))
            /\ RLe(R(OuterHeight, 2), touchStart'.y)
            /\ RLe(touchStart'.y, RSub(RInt(ParentHeight), R(OuterHeight, 2)))
            /\ RLe(Zero, outerStyle'.left)
            /\ RLe(RAdd(outerStyle'.left, RInt(OuterWidth)), RInt(ParentWidth))
            /\ RLe(Zero, outerStyle'.top)
            /\ RLe(RAdd(outerStyle'.top, RInt(OuterHeight)), RInt(ParentHeight))]_vars

\* C13 witness: the follower code has run for a session whose origin was
\* nearer to the left edge of the parent than half the outer width, and has
\* put the origin at exactly half the outer width.
C13_Witness ==
    /\ Dispatched("change")
    /\ options.following
    /\ options.positioning = "floating"
    /\ options.limitToParentElement
    /\ options.limitInput = "none"
    /\ ExceedsLimit(currentValue, options.handle.limit)
    /\ RLt(RSub(RelativeTouchPoint(LastTouch).x, RMul(currentValue.x, R(OuterWidth, 2))),
           R(OuterWidth, 2))
    /\ touchStart.x = R(OuterWidth, 2)

\* #touchStart.x shifted by the excess of the scaled X offset over the limit
ShiftedByExcessX(start, detail, limit) ==
    RAdd(start.x, RMul(RMul(RSub(MathAbs(detail.x), limit), MathSign(detail.x)),
                       R(OuterWidth, 2)))

\* C14 as claimed: with following and floating positioning a touchmove whose
\* scaled X offset exceeds handle.limit shifts #touchStart.x by exactly
\* (|offsetX| - limit) * sign(offsetX) * half the outer width.
C14_FollowingShiftsByExcess ==
    [][(/\ Dispatched("change")'
        /\ options.following
        /\ options.positioning = "floating"
        /\ RLt(options.handle.limit, MathAbs(emitted'[1].detail.x))) =>
            touchStart'.x =
                ShiftedByExcessX(touchStart, emitted'[1].detail, options.handle.limit)]_vars

\* C14, amended: the shift is exactly the excess when limitToParentElement is
\* off; when it is on, the shifted X is limited to [half the outer width,
\* parent width - half the outer width]. Every touchmove, the later ones
\* included, computes its offset from #touchStart as the last event left it.
C14_FollowingShiftsByExcessWithinParent ==
    [][Dispatched("change")' =>
        /\ (/\ options.following
            /\ options.positioning = "floating"
            /\ RLt(options.handle.limit, MathAbs(emitted'[1].detail.x))) =>
                LET shifted == ShiftedByExcessX(touchStart, emitted'[1].detail,
                                                options.handle.limit)
                    least == R(OuterWidth, 2)
                    most == RSub(RInt(ParentWidth), R(OuterWidth, 2))
                IN  touchStart'.x =
                        IF ~options.limitToParentElement THEN shifted
                        ELSE IF RLt(shifted, least) THEN least
                        ELSE IF RLt(most, shifted) THEN most
                        ELSE shifted
        /\ options.limitInput = "none" =>
              RMul(emitted'[1].detail.x, R(OuterWidth, 2)) =
                  RSub(RelativeTouchPoint(lastEvent'.changedTouches.list[1]).x, touchStart.x)]_vars

\* C14 witness: without limitToParentElement, a later touchmove has computed
\* an X offset that is not zero from an origin that only an X shift by the
\* excess can have produced (no touch point has that X).
C14_Witness ==
    /\ Dispatched("change")
    /\ options.following
    /\ options.positioning = "floating"
    /\ ~options.limitToParentElement
    /\ ~ExceedsLimit(currentValue, options.handle.limit)
    /\ currentValue.x # Zero
    /\ \A t \in FollowingTouches : RelativeTouchPoint(t).x # touchStart.x
    /\ RMul(currentValue.x, R(OuterWidth, 2)) =
           RSub(RelativeTouchPoint(LastTouch).x, touchStart.x)

(***************************************************************************)
(* new Joystick(_parent, _options): the constructor's merge of #options    *)
(***************************************************************************)
HandleKeys == {"limit", "round"}

\* every _options argument: an object with some of the options, its handle
\* (if any) an object with some of limit and round
PartialOptions ==
    {[k \in keys |-> IF k = "handle" THEN [h \in hkeys |-> full.handle[h]] ELSE full[k]] :
        full \in AllOptions, keys \in SUBSET OptionKeys, hkeys \in SUBSET HandleKeys}

\* the constructor has been called with _options and has not yet run
InitConstruct ==
    /\ \E given \in PartialOptions :
          lastEvent = [type |-> "constructor", changedTouches |-> NoTouches, options |-> given]
    /\ options = Undefined
    /\ currentlyActiveTouchId = 0
    /\ touchStart = Undefined
    /\ currentValue = ZeroVec
    /\ outerActive = FALSE
    /\ outerStyle = Unset
    /\ innerStyle = Unset
    /\ emitted = <<>>
    /\ thrown = FALSE
    /\ lastLifecycle = "none"
    /\ lastChange = NoDetail
    /\ setterCalls = 0
    /\ outerSize = [width |-> RestWidth, height |-> RestHeight]
    /\ retained = NotListening

\* this.#options = { ...this.defaultOptions, ..._options }
Construct ==
    /\ lastEvent.type = "constructor"
    /\ options = Undefined
    /\ options' = MergedOptions(lastEvent.options, DOMAIN lastEvent.options)
    /\ UNCHANGED <<currentlyActiveTouchId, touchStart, currentValue, outerActive,
                   outerStyle, innerStyle, lastEvent, emitted, thrown,
                   lastLifecycle, lastChange, setterCalls, outerSize, retained>>

SpecConstruct == InitConstruct /\ [][Construct]_vars

\* C15: after construction each of positioning, handle.limit, handle.round,
\* limitInput, following, invertY and limitToParentElement has the value
\* _options supplies for it, and its default when _options does not supply it.
C15_ConstructorMergesEveryField ==
    (lastEvent.type = "constructor" /\ options # Undefined) =>
        LET given == lastEvent.options
        IN  /\ \A k \in OptionKeys \ {"handle"} :
                  options[k] = IF k \in DOMAIN given THEN given[k] ELSE defaultOptions[k]
            /\ \A h \in HandleKeys :
                  /\ h \in DOMAIN options.handle
                  /\ options.handle[h] =
                        IF "handle" \in DOMAIN given /\ h \in DOMAIN given.handle
                        THEN given.handle[h]
                        ELSE defaultOptions.handle[h]

(***************************************************************************)
(* The setters of Joystick, called between touch events                    *)
(***************************************************************************)
\* at most MaxSetterCalls setters are called on a joystick
MaxSetterCalls == 1

SetterIgnored(key, value) ==
    /\ setterCalls < MaxSetterCalls
    /\ setterCalls' = setterCalls + 1
    /\ lastEvent' = [type |-> "set", changedTouches |-> NoTouches, key |-> key, value |-> value]
    /\ emitted' = <<>>
    /\ thrown' = FALSE
    /\ UNCHANGED <<options, currentlyActiveTouchId, touchStart, currentValue, outerActive,
                   outerStyle, innerStyle, lastLifecycle, lastChange, outerSize, retained>>

\* set <key>(_value) { this.#options.<key> = _value; }; the positioning setter
\* also swaps the classes "fixed" / "floating" of the outer element
Setter(key, value) ==
    /\ setterCalls < MaxSetterCalls
    /\ setterCalls' = setterCalls + 1
    /\ options' = [options EXCEPT ![key] = value]
    /\ lastEvent' = [type |-> "set", changedTouches |-> NoTouches, key |-> key, value |-> value]
    /\ emitted' = <<>>
    /\ thrown' = FALSE
    /\ UNCHANGED <<currentlyActiveTouchId, touchStart, currentValue, outerActive,
                   outerStyle, innerStyle, lastLifecycle, lastChange, outerSize, retained>>

SetPositioning == \E v \in Positionings : Setter("positioning", v)
SetHandle == \E v \in [limit : HandleLimits, round : BOOLEAN] : Setter("handle", v)
SetFollowing == \E v \in BOOLEAN : Setter("following", v)
SetLimitToParentElement == \E v \in BOOLEAN : Setter("limitToParentElement", v)
SetLimitInput == \E v \in Limitations : Setter("limitInput", v)
SetInvertY == \E v \in BOOLEAN : Setter("invertY", v)

\* new Joystick(parent, { positioning: "floating", following: true,
\* handle: { limit: 0.5, round: false } })
InitSetters ==
    Constructed([defaultOptions EXCEPT !.positioning = "floating", !.following = TRUE,
                                       !.handle = [limit |-> R(1, 2), round |-> FALSE]])

NextSetters ==
    \/ OneTouchStart \/ OneTouchMove \/ OneTouchEnd
    \/ SetPositioning \/ SetHandle \/ SetFollowing
    \/ SetLimitToParentElement \/ SetLimitInput \/ SetInvertY

SpecSetters == InitSetters /\ [][NextSetters]_vars

\* C16: a setter, called in any state, changes the one field of #options it
\* names to the value given and nothing else of the joystick, and dispatches
\* nothing; the touch event processed after it is handled with #options as
\* the setter left them.
C16_SetterChangesOnlyItsOption ==
    [][/\ lastEvent'.type = "set" =>
            /\ options' = [options EXCEPT ![lastEvent'.key] = lastEvent'.value]
            /\ currentlyActiveTouchId' = currentlyActiveTouchId
            /\ touchStart' = touchStart
            /\ currentValue' = currentValue
            /\ <<outerActive', outerStyle', innerStyle'>> =
                   <<outerActive, outerStyle, innerStyle>>
            /\ emitted' = <<>>
            /\ ~thrown'
       /\ (lastEvent.type = "set" /\ lastEvent'.type # "set") =>
            /\ options[lastEvent.key] = lastEvent.value
            /\ hndTouchEventOf(This, lastEvent'.type, lastEvent'.changedTouches) =
                   [this |-> This', emitted |-> emitted', thrown |-> thrown']]_vars

\* C16 witness: a setter has been called during a session that has already
\* reported a change, and has given its option a value other than the one the
\* joystick was constructed with.
C16_Witness ==
    /\ lastEvent.type = "set"
    /\ outerActive
    /\ currentlyActiveTouchId # 0
    /\ lastChange # NoDetail
    /\ currentValue # ZeroVec
    /\ options[lastEvent.key] = lastEvent.value
    /\ lastEvent.value # [defaultOptions EXCEPT !.positioning = "floating", !.following = TRUE,
                                            !.handle = [limit |-> R(1, 2), round |-> FALSE]][lastEvent.key]

\* the client point lies within the bounding rectangle of the outer element
InsideOuter(cx, cy) ==
    LET o == OuterRect(outerStyle)
    IN  /\ RLe(o.left, cx) /\ RLt(cx, RAdd(o.left, o.width))
        /\ RLe(o.top, cy) /\ RLt(cy, RAdd(o.top, o.height))

\* C17: in fixed positioning, with no session in progress, a touchstart is
\* accepted exactly when its point lies within the outer element's bounds:
\* outside them nothing changes and nothing is dispatched; anywhere inside
\* them, over the inner element too, pressed is dispatched, the session
\* starts and #touchStart is the centre of the outer element.
C17_FixedAcceptsTouchInsideOuter ==
    [][(/\ lastEvent'.type = "touchstart"
        /\ options.positioning = "fixed"
        /\ ~outerActive
        /\ currentlyActiveTouchId = 0) =>
            LET touch == lastEvent'.changedTouches.list[1]
                o == OuterRect(outerStyle)
            IN  IF InsideOuter(RInt(touch.clientX), RInt(touch.clientY))
                THEN /\ Dispatched("pressed")'
                     /\ outerActive'
                     /\ currentlyActiveTouchId' = touch.identifier
                     /\ touchStart' =
                            Vec(RSub(RAdd(o.left, RDiv(o.width, Two)), bcrParent.left),
                                RSub(RAdd(o.top, RDiv(o.height, Two)), bcrParent.top))
                ELSE /\ emitted' = <<>>
                     /\ UNCHANGED joystick]_vars

\* the handle vector h is the one the code places for the scaled offset v
IsHandleFor(h, v, handle) ==
    IF handle.round
    THEN LET L2 == RMul(handle.limit, handle.limit)
             vv == RAdd(RMul(v.x, v.x), RMul(v.y, v.y))
         IN  IF RLe(vv, L2)
             THEN h = Vec(NumOf(v.x), NumOf(v.y))
             ELSE /\ SquaredLength(h.x, h.y) = L2
                  /\ NMulRat(h.x, v.y) = NMulRat(h.y, v.x)
                  /\ NumSign(h.x) = MathSign(v.x).n
                  /\ NumSign(h.y) = MathSign(v.y).n
    ELSE IsClampOf(h.x, v.x, handle.limit) /\ IsClampOf(h.y, v.y, handle.limit)

\* the origin the scaled offset just dispatched was measured from
OriginOf(detail, point) ==
    Vec(RSub(point.x, RMul(detail.x, R(OuterWidth, 2))),
        RSub(point.y, RMul(IF options.invertY THEN RNeg(detail.y) ELSE detail.y,
                           R(OuterHeight, 2))))

\* C18: a touchmove that runs the follower code reports the offset of the
\* touch from #touchStart as it was before the follower code moved it, and
\* places the handle for that same offset; the moved #touchStart is not what
\* this event measures from.
C18_FollowingEventUsesOldOrigin ==
    /\ [][(/\ Dispatched("change")'
           /\ options.following
           /\ options.limitInput = "none"
           /\ ExceedsLimit(emitted'[1].detail, options.handle.limit)) =>
               /\ OriginOf(emitted'[1].detail,
                           RelativeTouchPoint(lastEvent'.changedTouches.list[1])) = touchStart
               /\ currentValue' = emitted'[1].detail]_vars
    /\ []((/\ Dispatched("change")
           /\ options.following
           /\ options.limitInput = "none"
           /\ ExceedsLimit(currentValue, options.handle.limit)) =>
               IsHandleFor(HandleVector, LastOffset, options.handle))

\* C18 witness: a touchmove has run the follower code and moved #touchStart,
\* so that the offset it reported is not the offset from the #touchStart it left.
C18_Witness ==
    /\ Dispatched("change")
    /\ options.following
    /\ options.limitInput = "none"
    /\ ExceedsLimit(currentValue, options.handle.limit)
    /\ OriginOf(currentValue, RelativeTouchPoint(LastTouch)) # touchStart

\* the centre of the outer element, relative to the parent, for a given style
OuterCentre(style) ==
    LET o == OuterRect(style)
    IN  Vec(RSub(RAdd(o.left, RDiv(o.width, Two)), bcrParent.left),
            RSub(RAdd(o.top, RDiv(o.height, Two)), bcrParent.top))

\* C19: in floating positioning, with no session in progress, a touchstart at
\* any point p is accepted: pressed is dispatched, #touchStart is p relative
\* to the parent, the outer element is centred on p and the handle is back in
\* its centre; a touchmove of that touch at the same point, right after it,
\* reports (0,0).
C19_FloatingStartsAtTouchPoint ==
    [][/\ (/\ lastEvent'.type = "touchstart"
           /\ options.positioning = "floating"
           /\ ~outerActive
           /\ currentlyActiveTouchId = 0) =>
               LET touch == lastEvent'.changedTouches.list[1]
               IN  /\ Dispatched("pressed")'
                   /\ outerActive'
                   /\ currentlyActiveTouchId' = touch.identifier
                   /\ touchStart' = RelativeTouchPoint(touch)
                   /\ OuterCentre(outerStyle') = RelativeTouchPoint(touch)
                   /\ innerStyle' = Unset
       /\ (/\ lastEvent'.type = "touchmove"
           /\ lastEvent.type = "touchstart"
           /\ Dispatched("pressed")
           /\ options.positioning = "floating"
           /\ lastEvent'.changedTouches = lastEvent.changedTouches) =>
               /\ emitted' = <<CustomEvent("change", ZeroVec)>>
               /\ currentValue' = ZeroVec
               /\ touchStart' = touchStart]_vars

\* C19 witness: a floating joystick has been pressed at a point that is not
\* the centre of the outer element at rest, and the touchmove at that same
\* point has reported (0,0).
C19_Witness ==
    /\ Dispatched("change")
    /\ options.positioning = "floating"
    /\ lastLifecycle = "pressed"
    /\ outerActive
    /\ currentValue = ZeroVec
    /\ touchStart = RelativeTouchPoint(LastTouch)
    /\ OuterCentre(outerStyle) = touchStart
    /\ touchStart # OuterCentre(Unset)

(***************************************************************************)
(* The page resizes the outer element between touch events                 *)
(***************************************************************************)
OuterSizes == [width : {RestWidth, RestWidth + 2}, height : {RestHeight, RestHeight + 2}]

Resize ==
    /\ \E size \in OuterSizes : size # outerSize /\ outerSize' = size
    /\ lastEvent' = [type |-> "resize", changedTouches |-> NoTouches]
    /\ emitted' = <<>>
    /\ thrown' = FALSE
    /\ UNCHANGED <<joystick, lastLifecycle, lastChange, setterCalls, retained>>

\* new Joystick(parent, { positioning: "floating", following: true,
\* handle: { limit: 0.5, round: ... } })
InitResize ==
    \E round \in BOOLEAN :
        Constructed([defaultOptions EXCEPT !.positioning = "floating", !.following = TRUE,
                                           !.handle = [limit |-> R(1, 2), round |-> round]])

NextResize == OneTouchStart \/ OneTouchMove \/ OneTouchEnd \/ Resize

SpecResize == InitResize /\ [][NextResize]_vars

\* C20: every touchmove scales by the size the outer element has at that
\* event, whatever size it had at earlier events of the session: the
\* dispatched offset times half the current size is the touch point minus
\* #touchStart, the follower code shifts #touchStart.x by the excess times
\* half the current width (limited to the parent), and the handle's style is
\* the limited offset in units of half the current size.
C20_GeometryReadAtEveryEvent ==
    /\ [][Dispatched("change")' =>
            LET d == emitted'[1].detail
                p == RelativeTouchPoint(lastEvent'.changedTouches.list[1])
            IN  /\ options.limitInput = "none" => OriginOf(d, p) = touchStart
                /\ (options.following /\ RLt(options.handle.limit, MathAbs(d.x))) =>
                      LET shifted == ShiftedByExcessX(touchStart, d, options.handle.limit)
                          least == R(OuterWidth, 2)
                          most == RSub(RInt(ParentWidth), R(OuterWidth, 2))
                      IN  /\ touchStart'.x =
                                IF ~options.limitToParentElement THEN shifted
                                ELSE MathMax(least, MathMin(most, shifted))
                          /\ outerStyle'.left = RSub(touchStart'.x, R(OuterWidth, 2))]_vars
    /\ [](Dispatched("change") => IsHandleFor(HandleVector, LastOffset, options.handle))

\* C20 witness: a touchmove has reported an offset that is not zero while
\* the outer element is not as wide as it was when the session positioned it.
C20_Witness ==
    /\ Dispatched("change")
    /\ lastLifecycle = "pressed"
    /\ options.positioning = "floating"
    /\ currentValue.x # Zero
    /\ ~ExceedsLimit(currentValue, options.handle.limit)
    /\ RSub(touchStart.x, outerStyle.left) # R(OuterWidth, 2)
    /\ OuterWidth # RestWidth

(***************************************************************************)
(* The host delivers events of the three types without changedTouches      *)
(***************************************************************************)
EventTypes == {"touchstart", "touchmove", "touchend"}

\* an event of a touch type whose changedTouches is undefined
NoPayloadEvent == \E type \in EventTypes : hndTouchEvent(type, NoTouches)

\* new Joystick(parent, { positioning: ..., following: ..., handle: { limit: 0.5, round: true } })
InitNoPayload ==
    \E positioning \in Positionings, following \in BOOLEAN :
        Constructed([defaultOptions EXCEPT !.positioning = positioning,
                                           !.following = following,
                                           !.handle = [limit |-> R(1, 2), round |-> TRUE]])

NextNoPayload == OneTouchStart \/ OneTouchMove \/ OneTouchEnd \/ NoPayloadEvent

SpecNoPayload == InitNoPayload /\ [][NextNoPayload]_vars

C22_ActiveMarkMatchesSession ==
    outerActive <=> currentlyActiveTouchId # 0

(***************************************************************************)
(* The host reports several touches in the changedTouches of one event     *)
(***************************************************************************)
\* identifiers of the fingers of these sessions, none of them 0
FingerIds == 1..(MaxTouchId + 1)
Fingers == [identifier : FingerIds, clientX : ClientXs, clientY : {ParentTop + 3}]

\* changedTouches of one event: one touch, or two touches of different fingers
ChangedTouchLists ==
    {<<t>> : t \in Fingers} \cup
    {l \in Fingers \X Fingers : l[1].identifier # l[2].identifier}

ListStart == \E l \in ChangedTouchLists : hndTouchEvent("touchstart", TouchList(l))
ListMove == \E l \in ChangedTouchLists : hndTouchEvent("touchmove", TouchList(l))
ListEnd == \E l \in ChangedTouchLists : hndTouchEvent("touchend", TouchList(l))

\* new Joystick(parent, { positioning: ... })
InitLists ==
    \E positioning \in Positionings :
        Constructed([defaultOptions EXCEPT !.positioning = positioning])

NextLists == ListStart \/ ListMove \/ ListEnd

SpecLists == InitLists /\ [][NextLists]_vars

\* the changed touches of the event with the given identifier
TouchesOf(event, identifier) ==
    {i \in DOMAIN event.changedTouches.list :
        event.changedTouches.list[i].identifier = identifier}

\* C23: during a session a touchend or touchmove whose changedTouches holds
\* the tracked touch, at whatever position of the list, is processed for
\* that touch: the touchend ends the session (released is dispatched, the
\* outer element is marked inactive, no touch is tracked), the touchmove
\* dispatches change with the offset of the tracked touch's point.
C23_TrackedTouchFoundAnywhereInList ==
    [][(/\ lastEvent'.type \in {"touchend", "touchmove"}
        /\ outerActive
        /\ currentlyActiveTouchId # 0
        /\ TouchesOf(lastEvent', currentlyActiveTouchId) # {})
          => LET i == CHOOSE i \in TouchesOf(lastEvent', currentlyActiveTouchId) : TRUE
                 p == RelativeTouchPoint(lastEvent'.changedTouches.list[i])
             IN  IF lastEvent'.type = "touchend"
                 THEN /\ Dispatched("released")'
                      /\ ~outerActive'
                      /\ currentlyActiveTouchId' = 0
                 ELSE /\ Dispatched("change")'
                      /\ OriginOf(emitted'[1].detail, p) = touchStart]_vars

(***************************************************************************)
(* A listener of the joystick keeps the detail of the events it receives   *)
(***************************************************************************)
DetailTypes == {"change", "released"}

\* joystick.addEventListener(EVENT.CHANGE, listener) and likewise for RELEASED,
\* with listener = (_event) => { kept[_event.type] = _event.detail; }
AddEventListener ==
    /\ retained = NotListening
    /\ retained' = [type \in DetailTypes |-> NoDetail]
    /\ lastEvent' = [type |-> "addEventListener", changedTouches |-> NoTouches]
    /\ emitted' = <<>>
    /\ thrown' = FALSE
    /\ UNCHANGED <<joystick, lastLifecycle, lastChange, setterCalls, outerSize>>

\* what the listener reads from a detail it has kept
Deref(reference) == IF reference = CurrentValueRef THEN currentValue ELSE Undefined

\* new Joystick(parent, { positioning: "floating", invertY: ... })
InitRetain ==
    \E invertY \in BOOLEAN :
        Constructed([defaultOptions EXCEPT !.positioning = "floating", !.invertY = invertY])

NextRetain == AddEventListener \/ OneTouchStart \/ OneTouchMove \/ OneTouchEnd

SpecRetain == InitRetain /\ [][NextRetain]_vars

\* C24: the detail of a change or released event keeps the values it had
\* when it was dispatched: whenever a listener that has kept it reads it,
\* after the handler has returned or after later touch events, it reads the
\* vector it read at the dispatch.
C24_RetainedDetailKeepsItsValues ==
    retained # NotListening =>
        \A type \in DetailTypes :
            retained[type] # NoDetail =>
                Deref(retained[type].detail) = retained[type].seen

\* the outer element centred on the point lies inside the parent on both axes
InsideParent(point) ==
    /\ RLe(R(OuterWidth, 2), point.x)
    /\ RLe(point.x, RSub(RInt(ParentWidth), R(OuterWidth, 2)))
    /\ RLe(R(OuterHeight, 2), point.y)
    /\ RLe(point.y, RSub(RInt(ParentHeight), R(OuterHeight, 2)))

\* the last event was a touchmove that ran the follower code, and the limit
\* to the parent element was off or left the new origin where the excess put it
FollowedUnlimited ==
    /\ options.following
    /\ options.positioning = "floating"
    /\ options.limitInput = "none"
    /\ lastEvent.type = "touchmove"
    /\ Dispatched("change")
    /\ ExceedsLimit(emitted[1].detail, options.handle.limit)
    /\ \/ ~options.limitToParentElement
       \/ InsideParent(FollowPositionUnlimited(
              LastOffset, OriginOf(emitted[1].detail, RelativeTouchPoint(LastTouch)),
              OuterRect(outerStyle), options))

\* C25: with following and floating positioning, after a touchmove that ran
\* the follower code without the limit to the parent taking effect, a further
\* touchmove of the same touch at the same point (the outer element's size
\* unchanged) dispatches change with an offset of magnitude at most
\* handle.limit on each axis, and of exactly handle.limit, with the sign it
\* had, on each axis that had exceeded it; #touchStart and the outer
\* element's position are not adjusted again.
C25_FollowingCatchesUp ==
    [][(FollowedUnlimited /\ lastEvent' = lastEvent) =>
          LET before == LastOffset
              limit == options.handle.limit
          IN  /\ Dispatched("change")'
              /\ ~ExceedsLimit(emitted'[1].detail, limit)
              /\ RLt(limit, MathAbs(before.x)) =>
                    emitted'[1].detail.x = RMul(limit, MathSign(before.x))
              /\ RLt(limit, MathAbs(before.y)) =>
                    (IF options.invertY THEN RNeg(emitted'[1].detail.y)
                                        ELSE emitted'[1].detail.y)
                        = RMul(limit, MathSign(before.y))
              /\ touchStart' = touchStart
              /\ outerStyle' = outerStyle]_vars

\* C25 witness: a touchmove has reported exactly handle.limit on both axes,
\* measured from an origin that lies at none of the points touched and inside
\* the parent, the origin the follower code leaves for a touchmove of that
\* point: the state of a touchmove that repeats such a touchmove.
C25_Witness ==
    /\ options.following
    /\ options.positioning = "floating"
    /\ lastEvent.type = "touchmove"
    /\ Dispatched("change")
    /\ MathAbs(emitted[1].detail.x) = options.handle.limit
    /\ MathAbs(emitted[1].detail.y) = options.handle.limit
    /\ OriginOf(emitted[1].detail, RelativeTouchPoint(LastTouch)) = touchStart
    /\ \A t \in OneTouch : /\ RelativeTouchPoint(t).x # touchStart.x
                           /\ RelativeTouchPoint(t).y # touchStart.y
    /\ InsideParent(touchStart)

====
